---- MODULE Spec2Model ----
(***************************************************************************)
(* Model of the LabVIEW interop layer: LVBool conversions, the error       *)
(* cluster (set_error / set_warning / format_error_source), the ToLvError  *)
(* trait's write_error, the with_lverrorhandling macro, and                *)
(* LVArrayHandle::resize_array.                                            *)
(***************************************************************************)
EXTENDS Integers, Sequences, FiniteSets, TLC

VARIABLES
    conv,           \* last LVBool conversion: [op, b, wire, out]
    cluster,        \* the host-allocated ErrorCluster: [status, code, source]
    call,           \* the last entry-point call on the cluster
    work_runs,      \* how often a closure handed to with_lverrorhandling ran
    first_fail,     \* code of the first failed closure of the chain, or NoFail
    pointer_width,  \* cfg(target_pointer_width)
    dim_sizes,      \* LVArrayHandle: the dimension sizes read through the handle
    host_alloc,     \* element count the LabVIEW memory manager has allocated
    resize          \* the last resize_array call

vars == <<conv, cluster, call, work_runs, first_fail,
          pointer_width, dim_sizes, host_alloc, resize>>

boolVars    == <<conv>>
clusterVars == <<cluster, call, work_runs, first_fail>>
arrayVars   == <<pointer_width, dim_sizes, host_alloc, resize>>

---------------------------------------------------------------------------
(* Bounds *)

MaxLen   == 1   \* longest source/description/Display text of an error value
MaxCode  == 1   \* error codes range over 0..MaxCode and BogusError
MaxRuns  == 2   \* closures run in one chain of guarded entry points
MaxDim   == 2   \* largest size of one array dimension

(* Program constants *)

ByteMax    == 255   \* LVBool wraps a u8
BogusError == 42    \* MgError::BogusError, the default ToLvError::code
SUCCESS    == 0     \* LVStatusCode::SUCCESS
Rank       == 2     \* D, the const generic number of dimensions, taken as 2

Bytes == 0..ByteMax
Chars == {"a"}

RECURSIVE TextsUpTo(_)
TextsUpTo(n) ==
    IF n = 0 THEN {""}
    ELSE TextsUpTo(n - 1) \cup {t \o c : t \in TextsUpTo(n - 1), c \in Chars}

Texts == TextsUpTo(MaxLen)

\* Texts a cluster's source holds when the host hands it in
HostTexts == {"", "LabVIEW"}
Codes == (0..MaxCode) \cup {BogusError}

---------------------------------------------------------------------------
(* boolean.rs *)

LV_FALSE == 0
LV_TRUE  == 1

\* impl From<bool> for LVBool
LVBoolFromBool(value) == IF value THEN LV_TRUE ELSE LV_FALSE

\* Variant: only LV_TRUE decodes to true
BoolFromLVBoolOnlyOne(value) == value = LV_TRUE

\* impl From<LVBool> for bool: !matches!(value.0, 0)
BoolFromLVBool(value) == ~(value = 0)

NoConv == [op |-> "none", b |-> FALSE, wire |-> 0, out |-> FALSE]

\* let value: LVBool = b.into();
Encode ==
    /\ \E b \in BOOLEAN :
         conv' = [op |-> "encode", b |-> b, wire |-> LVBoolFromBool(b), out |-> b]
    /\ UNCHANGED <<clusterVars, arrayVars>>

\* let value: bool = LVBool(w).into();
Decode ==
    /\ \E w \in Bytes :
         conv' = [op |-> "decode", b |-> FALSE, wire |-> w, out |-> BoolFromLVBool(w)]
    /\ UNCHANGED <<clusterVars, arrayVars>>

\* let value: bool = LVBool::from(b).into();
RoundTrip ==
    /\ \E b \in BOOLEAN :
         LET w == LVBoolFromBool(b) IN
         conv' = [op |-> "roundtrip", b |-> b, wire |-> w, out |-> BoolFromLVBool(w)]
    /\ UNCHANGED <<clusterVars, arrayVars>>

---------------------------------------------------------------------------
(* lv_errors.rs: ErrorCluster *)

\* Values implementing ToLvError (code, is_error, source, description); the
\* macro also uses the value's Display text (to_string).
ReportValues ==
    [code : Codes, is_error : BOOLEAN, source : Texts, description : Texts]

ErrValues ==
    [code : Codes, is_error : BOOLEAN, source : Texts, description : Texts,
     to_string : Texts]

NoErr  == [code |-> SUCCESS, is_error |-> FALSE, source |-> "", description |-> ""]

\* ErrorCluster::status: self.status == LV_TRUE
status(c) == c.status = LV_TRUE

\* ErrorCluster::code
code(c) == c.code

\* ErrorCluster::format_error_source: the match arms in their order
format_error_source(source, description) ==
    IF source = "" THEN "<ERR>\n" \o description
    ELSE IF description = "" THEN source
    ELSE source \o "\n<ERR>\n" \o description

\* ErrorCluster::set_source: LStrHandle::set_str writes the text through the
\* host's string primitive, which may fail (str_ok = FALSE) and then leaves
\* the handle's text as it was.
set_source(c, source, description, str_ok) ==
    LET full_source == format_error_source(source, description) IN
    [cluster |-> IF str_ok THEN [c EXCEPT !.source = full_source] ELSE c,
     ok      |-> str_ok]

\* Variant: set_warning storing LV_TRUE
set_warning_flag_true(c, cd, source, description, str_ok) ==
    set_source([c EXCEPT !.code = cd, !.status = LV_TRUE],
               source, description, str_ok)

\* ErrorCluster::set_warning
set_warning(c, cd, source, description, str_ok) ==
    set_source([c EXCEPT !.code = cd, !.status = LV_FALSE],
               source, description, str_ok)

\* Variant: set_error without the store to self.code
set_error_keeps_code(c, cd, source, description, str_ok) ==
    set_source([c EXCEPT !.status = LV_TRUE], source, description, str_ok)

\* ErrorCluster::set_error
set_error(c, cd, source, description, str_ok) ==
    set_source([c EXCEPT !.code = cd, !.status = LV_TRUE],
               source, description, str_ok)

NoCall ==
    [op |-> "none", skipped |-> FALSE, ran |-> FALSE,
     failed |-> FALSE, err |-> NoErr, result |-> "none", ret |-> SUCCESS]

\* ToLvError::write_error on a null (ptr_null) or valid ErrorClusterPtr
write_error_call(op, ptr_null, err, str_ok) ==
    /\ call.result # "panic"
    /\ IF ptr_null
       THEN \* as_ref_mut()? returns the error; nothing is written
            /\ cluster' = cluster
            /\ call' = [NoCall EXCEPT !.op = op, !.result = "ErrNull"]
       ELSE LET r == IF err.is_error
                     THEN set_error(cluster, err.code, err.source,
                                    err.description, str_ok)
                     ELSE set_warning(cluster, err.code, err.source,
                                      err.description, str_ok)
            IN /\ cluster' = r.cluster
               /\ call' = [NoCall EXCEPT !.op = op, !.err = err,
                                         !.result = IF r.ok THEN "Ok" ELSE "Err"]
    /\ UNCHANGED <<work_runs, first_fail, boolVars, arrayVars>>

write_error ==
    \E ptr_null \in BOOLEAN, err \in ReportValues, str_ok \in BOOLEAN :
        write_error_call("write_error", ptr_null, err, str_ok)

\* error_clusters.rs: ErrorText("This is a test") with source "Rust" and the
\* default code and is_error
ErrorText ==
    [code |-> BogusError, is_error |-> TRUE, source |-> "Rust",
     description |-> "This is a test"]

\* error_clusters.rs: set_error_cluster
set_error_cluster ==
    \E ptr_null \in BOOLEAN, str_ok \in BOOLEAN :
        write_error_call("set_error_cluster", ptr_null, ErrorText, str_ok)

---------------------------------------------------------------------------
(* lv_errors.rs: with_lverrorhandling! *)

\* Variant: the macro without its test of status()
with_lverrorhandling_unguarded(op, work, err, str_ok) ==
    /\ call.result # "panic"
    /\ work_runs < MaxRuns
    /\ work_runs' = work_runs + 1
    /\ IF work = "Ok"
       THEN /\ cluster' = cluster
            /\ first_fail' = first_fail
            /\ call' = [NoCall EXCEPT !.op = op, !.ran = TRUE,
                                      !.result = "ret", !.ret = SUCCESS]
       ELSE LET r == set_error(cluster, err.code, "Rust Interop Error",
                               err.to_string, str_ok)
            IN /\ cluster' = r.cluster
               /\ first_fail' =
                      IF first_fail = {} THEN {err.code} ELSE first_fail
               /\ call' = [NoCall EXCEPT
                             !.op = op, !.ran = TRUE,
                             !.failed = TRUE, !.err = err,
                             !.result = IF r.ok THEN "ret" ELSE "panic",
                             !.ret = err.code]
    /\ UNCHANGED <<boolVars, arrayVars>>

\* The macro applied to a pointer to the host-allocated cluster and a closure
\* whose outcome is Ok (work = "Ok") or Err(err) (work = "Err"). With such a
\* pointer as_ref_mut() is Ok, so the if-let branch is always taken.
with_lverrorhandling_call(op, work, err, str_ok) ==
    /\ call.result # "panic"
    /\ IF ~status(cluster)
       THEN /\ work_runs < MaxRuns
            /\ work_runs' = work_runs + 1
            /\ IF work = "Ok"
               THEN /\ cluster' = cluster
                    /\ first_fail' = first_fail
                    /\ call' = [NoCall EXCEPT !.op = op, !.ran = TRUE,
                                              !.result = "ret", !.ret = SUCCESS]
               ELSE LET errstr  == err.to_string
                        errcode == err.code
                        r == set_error(cluster, errcode, "Rust Interop Error",
                                       errstr, str_ok)
                    IN /\ cluster' = r.cluster
                       /\ first_fail' =
                              IF first_fail = {} THEN {errcode} ELSE first_fail
                       \* set_error(..).unwrap() panics when the text write fails
                       /\ call' = [NoCall EXCEPT
                                     !.op = op, !.ran = TRUE,
                                     !.failed = TRUE, !.err = err,
                                     !.result = IF r.ok THEN "ret" ELSE "panic",
                                     !.ret = errcode]
       ELSE /\ cluster' = cluster
            /\ work_runs' = work_runs
            /\ first_fail' = first_fail
            /\ call' = [NoCall EXCEPT !.op = op, !.skipped = TRUE,
                                      !.result = "ret", !.ret = code(cluster)]
    /\ UNCHANGED <<boolVars, arrayVars>>

\* The macro around a closure that succeeds, or fails with any error value
with_lverrorhandling ==
    \/ with_lverrorhandling_call("with_lverrorhandling", "Ok", NoErr, TRUE)
    \/ \E err \in ErrValues, str_ok \in BOOLEAN :
          with_lverrorhandling_call("with_lverrorhandling", "Err", err, str_ok)

\* LVInteropError::InternalError(InternalError::ArrayDimensionMismatch): the
\* ToLvError impl gives only description (the Display text)
ArrayDimensionMismatch ==
    [code |-> BogusError, is_error |-> TRUE, source |-> "",
     description |-> "ArrayDimensionMismatch",
     to_string |-> "ArrayDimensionMismatch"]

\* error_clusters.rs: auto_lv_errorhandling, whose closure always fails
auto_lv_errorhandling ==
    \E str_ok \in BOOLEAN :
        with_lverrorhandling_call("auto_lv_errorhandling", "Err",
                                  ArrayDimensionMismatch, str_ok)

---------------------------------------------------------------------------
(* array/memory.rs *)

Sizes == 0..MaxDim
Dims  == [1..Rank -> Sizes]

\* MgErr values the host returns: 0 (no error), 1 and 2 (two failures)
MgErrs == {0, 1, 2}

RECURSIVE product(_, _)
product(d, n) == IF n = 0 THEN 1 ELSE d[n] * product(d, n - 1)

\* LVArrayDims::element_count: the product of the sizes
element_count(d) == product(d, Rank)

\* MgError::to_result: zero is success
to_result(mg_err) == IF mg_err = 0 THEN "Ok" ELSE "Err"

\* numeric_array_resize as seen from the caller: on success the allocation
\* holds new_size elements, on a nonzero status it is as before
host_resize(alloc, new_size, mg_err) == IF mg_err = 0 THEN new_size ELSE alloc

\* Variant: dim_sizes assigned whatever the result
resize_array_commits_always(dims, alloc, width, api_ok, new_dims, mg_err) ==
    IF width = 64 /\ new_dims = dims
    THEN [dim_sizes |-> dims, host_alloc |-> alloc, host_called |-> FALSE,
          result |-> "Ok"]
    ELSE IF ~api_ok
    THEN [dim_sizes |-> dims, host_alloc |-> alloc, host_called |-> FALSE,
          result |-> "Err"]
    ELSE LET new_size == element_count(new_dims)
             result   == to_result(mg_err)
         IN [dim_sizes   |-> new_dims,
             host_alloc  |-> host_resize(alloc, new_size, mg_err),
             host_called |-> TRUE,
             result      |-> result]

\* Variant: dim_sizes never assigned
resize_array_never_commits(dims, alloc, width, api_ok, new_dims, mg_err) ==
    IF width = 64 /\ new_dims = dims
    THEN [dim_sizes |-> dims, host_alloc |-> alloc, host_called |-> FALSE,
          result |-> "Ok"]
    ELSE IF ~api_ok
    THEN [dim_sizes |-> dims, host_alloc |-> alloc, host_called |-> FALSE,
          result |-> "Err"]
    ELSE LET new_size == element_count(new_dims)
             result   == to_result(mg_err)
         IN [dim_sizes   |-> dims,
             host_alloc  |-> host_resize(alloc, new_size, mg_err),
             host_called |-> TRUE,
             result      |-> result]

\* Variant: without the equality test (the 32-bit build on every platform)
resize_array_no_shortcut(dims, alloc, width, api_ok, new_dims, mg_err) ==
    IF ~api_ok
    THEN [dim_sizes |-> dims, host_alloc |-> alloc, host_called |-> FALSE,
          result |-> "Err"]
    ELSE LET new_size == element_count(new_dims)
             result   == to_result(mg_err)
         IN [dim_sizes   |-> IF result = "Ok" THEN new_dims ELSE dims,
             host_alloc  |-> host_resize(alloc, new_size, mg_err),
             host_called |-> TRUE,
             result      |-> result]

\* LVArrayHandle::resize_array as a function of the handle's state, the
\* platform, whether memory_api() is available and the host's status
resize_array_fn(dims, alloc, width, api_ok, new_dims, mg_err) ==
    IF width = 64 /\ new_dims = dims
    THEN [dim_sizes |-> dims, host_alloc |-> alloc, host_called |-> FALSE,
          result |-> "Ok"]
    ELSE IF ~api_ok
    THEN [dim_sizes |-> dims, host_alloc |-> alloc, host_called |-> FALSE,
          result |-> "Err"]
    ELSE LET new_size == element_count(new_dims)
             result   == to_result(mg_err)
         IN [dim_sizes   |-> IF result = "Ok" THEN new_dims ELSE dims,
             host_alloc  |-> host_resize(alloc, new_size, mg_err),
             host_called |-> TRUE,
             result      |-> result]

\* One call of resize_array; resize keeps the call's inputs and outcome and
\* last_ok, the new_dims of the most recent call that returned Ok
resize_array ==
    \E new_dims \in Dims, api_ok \in BOOLEAN, mg_err \in MgErrs :
        LET r == resize_array_fn(dim_sizes, host_alloc, pointer_width, api_ok,
                                 new_dims, mg_err)
        IN /\ dim_sizes' = r.dim_sizes
           /\ host_alloc' = r.host_alloc
           /\ resize' = [op |-> "resize_array", pre |-> dim_sizes,
                         new_dims |-> new_dims, api_ok |-> api_ok,
                         mg_err |-> mg_err, host_called |-> r.host_called,
                         result |-> r.result,
                         last_ok |-> IF r.result = "Ok" THEN new_dims
                                     ELSE resize.last_ok]
           /\ UNCHANGED <<pointer_width, boolVars, clusterVars>>

---------------------------------------------------------------------------
(* Specifications *)

IdleBool == conv = NoConv

IdleCluster ==
    /\ cluster = [status |-> LV_FALSE, code |-> SUCCESS, source |-> ""]
    /\ call = NoCall
    /\ work_runs = 0
    /\ first_fail = {}

IdleArray ==
    /\ pointer_width = 64
    /\ dim_sizes = [i \in 1..Rank |-> 0]
    /\ host_alloc = 0
    /\ resize = [op |-> "none", pre |-> dim_sizes, new_dims |-> dim_sizes,
                 api_ok |-> TRUE, mg_err |-> 0, host_called |-> FALSE,
                 result |-> "none", last_ok |-> dim_sizes]

\* The LVBool conversions applied to every bool and every wire byte
InitBool == IdleBool /\ IdleCluster /\ IdleArray
NextBool == Encode \/ Decode \/ RoundTrip
SpecBool == InitBool /\ [][NextBool]_vars

\* A cluster as the host hands it in: any status byte, code and text
InitCluster ==
    /\ cluster \in [status : Bytes, code : Codes, source : HostTexts]
    /\ call = NoCall
    /\ work_runs = 0
    /\ first_fail = {}
    /\ IdleBool /\ IdleArray

\* A chain of guarded entry points sharing the cluster
NextGuard == with_lverrorhandling \/ auto_lv_errorhandling
SpecGuard == InitCluster /\ [][NextGuard]_vars

\* Error values written into the cluster with write_error
NextWrite == write_error \/ set_error_cluster
SpecWrite == InitCluster /\ [][NextWrite]_vars

\* An array handle whose cached dimensions match the host's allocation
InitArray ==
    /\ pointer_width \in {32, 64}
    /\ dim_sizes \in Dims
    /\ host_alloc = element_count(dim_sizes)
    /\ resize = [op |-> "none", pre |-> dim_sizes, new_dims |-> dim_sizes,
                 api_ok |-> TRUE, mg_err |-> 0, host_called |-> FALSE,
                 result |-> "none", last_ok |-> dim_sizes]
    /\ IdleBool /\ IdleCluster

NextArray == resize_array
SpecArray == InitArray /\ [][NextArray]_vars

---------------------------------------------------------------------------
(* Properties *)

\* C1: first-error-wins. A guarded entry point entered while the cluster's
\* status() is true does not run its closure, returns the cluster's code and
\* leaves the cluster as it was; and once a closure of the chain has failed,
\* the cluster keeps reporting that first failure's code.
C1_FirstErrorWins ==
    /\ [][status(cluster) =>
            /\ work_runs' = work_runs
            /\ call'.skipped /\ ~call'.ran
            /\ call'.result = "ret" /\ call'.ret = code(cluster)
            /\ cluster'.status = cluster.status
            /\ cluster'.code = cluster.code]_vars
    /\ [](\A c \in first_fail : status(cluster) /\ code(cluster) = c)

\* A stage run after an earlier stage's closure failed: it was skipped and
\* returned the first failure's code
C1_Witness ==
    /\ call.skipped
    /\ work_runs = MaxRuns
    /\ first_fail # {}
    /\ call.ret \in first_fail

\* C2: when the closure fails with code c on a cluster whose status() was
\* false, the guard returns c and leaves the cluster with status() true and
\* code() c.
C2_FailurePath ==
    (call.failed /\ call.result = "ret") =>
        /\ status(cluster)
        /\ code(cluster) = call.err.code
        /\ call.ret = call.err.code

C2_Witness ==
    /\ call.failed
    /\ call.result = "ret"
    /\ call.err.code = MaxCode
    /\ ~call.err.is_error

\* C3: on failure the guard writes the cluster as write_error would: the
\* value's code, the text formatted from its source() and description(),
\* and the status flag of set_error or set_warning by its is_error().
C3_GuardWritesAsWriteError ==
    (call.failed /\ call.result = "ret") =>
        /\ cluster.code = call.err.code
        /\ cluster.status = LVBoolFromBool(call.err.is_error)
        /\ cluster.source =
               format_error_source(call.err.source, call.err.description)

\* C4: a resize_array call that returns a failure leaves dim_sizes as it was.
C4_ResizeFailureAtomic ==
    resize.result = "Err" => dim_sizes = resize.pre

C4_Witness ==
    /\ resize.result = "Err"
    /\ resize.host_called
    /\ resize.mg_err # 0
    /\ resize.new_dims # resize.pre

\* C5: dim_sizes are the new_dims of the most recent call that returned Ok
\* (the initial dimensions if none did), their element count is what the
\* host has allocated, and a call the host answers with zero returns Ok and
\* commits new_dims.
C5_DimsMatchAllocation ==
    /\ dim_sizes = resize.last_ok
    /\ element_count(dim_sizes) = host_alloc
    /\ (resize.host_called /\ resize.mg_err = 0) =>
           (resize.result = "Ok" /\ dim_sizes = resize.new_dims)

C5_Witness ==
    /\ resize.host_called
    /\ resize.mg_err = 0
    /\ resize.result = "Ok"
    /\ element_count(resize.new_dims) # element_count(resize.pre)

\* C6: with a 64-bit pointer width, resize_array with new_dims equal to the
\* current dim_sizes returns Ok without calling the host and leaves
\* dim_sizes as they were.
C6_ResizeNoOp ==
    (pointer_width = 64 /\ resize.op = "resize_array"
       /\ resize.new_dims = resize.pre) =>
        /\ ~resize.host_called
        /\ resize.result = "Ok"
        /\ dim_sizes = resize.pre

\* A no-op call for which the host would have answered with a failure
C6_Witness ==
    /\ pointer_width = 64
    /\ resize.op = "resize_array"
    /\ resize.new_dims = resize.pre
    /\ resize.mg_err # 0
    /\ resize.result = "Ok"

\* The table of the four emptiness combinations
FourRows(source, description) ==
    IF source # "" /\ description # "" THEN source \o "\n<ERR>\n" \o description
    ELSE IF source # "" THEN source
    ELSE IF description # "" THEN "<ERR>\n" \o description
    ELSE ""

\* C7: the text written for (source, description) follows the four rows;
\* both empty gives the empty text.
C7_FourRowRule ==
    (call.op = "write_error" /\ call.result = "Ok") =>
        cluster.source = FourRows(call.err.source, call.err.description)

\* C8: after write_error returns Ok the cluster's status() is the value's
\* is_error() and its code() the value's code(); set_error and set_warning
\* write the same cluster but for the status flag, true and false.
C8_WriteErrorStatusCode ==
    /\ call.result = "Ok" =>
           /\ status(cluster) = call.err.is_error
           /\ code(cluster) = call.err.code
    /\ \A cd \in Codes, s \in Texts, d \in Texts :
           LET e == set_error(cluster, cd, s, d, TRUE).cluster
               w == set_warning(cluster, cd, s, d, TRUE).cluster
           IN /\ e.status = LV_TRUE /\ w.status = LV_FALSE
              /\ e.code = cd /\ w.code = cd
              /\ e.source = w.source

\* A warning written over a cluster
C8_Witness ==
    /\ call.op = "write_error"
    /\ call.result = "Ok"
    /\ ~call.err.is_error
    /\ call.err.code = MaxCode
    /\ cluster.status = LV_FALSE

\* C9: encoding gives wire value 0 or 1 and decoding it gives the bool
\* back; decoding gives true for every nonzero byte and false for 0.
C9_BoolRoundTrip ==
    /\ conv.op \in {"encode", "roundtrip"} => conv.wire \in {0, 1}
    /\ conv.op = "roundtrip" => conv.out = conv.b
    /\ conv.op = "decode" => (conv.out <=> conv.wire # 0)

C9_Witness ==
    /\ conv.op = "decode"
    /\ conv.wire = ByteMax
    /\ conv.out

\* C10: status() is the decoding of the status byte, so a guarded entry
\* point is skipped exactly when the cluster's byte is nonzero.
C10_StatusDecodesFlag ==
    [][call'.skipped = BoolFromLVBool(cluster.status)]_vars

====
